---- MODULE Spec2Model ----
(* State-machine model of the Repeater class of @stater/repeat (src/src/index.ts). *)
(* One JavaScript event loop: every action below is one synchronous run of code    *)
(* between two suspension points (a sleep, an await of the action, a microtask).   *)
EXTENDS Integers, Sequences, FiniteSets, TLC

\* ---------------------------------------------------------------- bounds
MaxTasks == 2       \* driver calls made on the instance
MaxCount == 2       \* largest count passed to repeat()
MaxCalls == 2       \* invocations of the action by one driver call
MaxNow   == 2       \* horizon of the wall clock, in ms
MaxDelay == 1       \* largest delay passed to every()
MinRt    == 1       \* the index from which the predicate rt => rt >= MinRt is true
MaxStrLen == 3      \* longest string passed to every()

\* ---------------------------------------------------------------- values
Undef == 0 - 1      \* a field that was never assigned (undefined)
NaN   == 0 - 2      \* the number NaN

Counts   == (0 - 1) .. MaxCount
Delays   == 0 .. MaxDelay
Outcomes == {"sync", "async", "throw"}       \* what one call of the action does
\* argument of until(): a zero-argument function ("fn"), the function rt => rt >= MinRt
\* ("rt"), a plain boolean, or the caller's boolean variable complete
Preds    == {"fn", "rt", "true", "false", "complete"}

\* the decimal digits, and the characters of the strings passed to every(): two digits,
\* the letters of the units and one other letter
Digits == <<"0", "1", "2", "3", "4", "5", "6", "7", "8", "9">>
Chars  == {"0", "2", "m", "s", "x"}

RECURSIVE StringsOfLen(_)
StringsOfLen(k) ==
  IF k = 0 THEN {<<>>}
  ELSE {Append(q, c) : q \in StringsOfLen(k - 1), c \in Chars}

Strings == UNION {StringsOfLen(k) : k \in 0 .. MaxStrLen}

\* an argument of every(ms: string | number)
Num(n) == [isString |-> FALSE, number |-> n, string |-> <<>>]
Str(q) == [isString |-> TRUE, number |-> 0, string |-> q]

VARIABLES status, startDate, endDate, runTime, _repeated, _timeout, _stopped,
          now, tasks,
          everyArg,    \* the argument of the latest call of every()
          stopMark,    \* history: the number of driver calls made when stop() was last
                       \* called with an infinite loop running, 0 if it never was
          complete     \* the caller's variable `complete`, passed as until(complete)

inst == <<status, startDate, endDate, runTime, _repeated, _timeout, _stopped>>
caller == <<everyArg, stopMark, complete>>
vars == <<status, startDate, endDate, runTime, _repeated, _timeout, _stopped, now, tasks,
          everyArg, stopMark, complete>>

\* JavaScript truthiness of a number | undefined
Truthy(v) == v # Undef /\ v # 0 /\ v # NaN

\* ---------------------------------------------------------------- every(): the conversion
IsDigit(c) == \E k \in DOMAIN Digits : Digits[k] = c
DigitValue(c) == (CHOOSE k \in DOMAIN Digits : Digits[k] = c) - 1

\* String.prototype.endsWith
endsWith(q, suffix) ==
  /\ Len(q) >= Len(suffix)
  /\ SubSeq(q, Len(q) - Len(suffix) + 1, Len(q)) = suffix

\* the length of the longest prefix of q made of digits
RECURSIVE DigitPrefix(_)
DigitPrefix(q) ==
  IF q = <<>> \/ ~IsDigit(Head(q)) THEN 0 ELSE 1 + DigitPrefix(Tail(q))

\* the number written by a string of digits
RECURSIVE Decimal(_)
Decimal(q) ==
  IF q = <<>> THEN 0 ELSE 10 * Decimal(SubSeq(q, 1, Len(q) - 1)) + DigitValue(q[Len(q)])

\* parseInt(q) for the strings over Chars: the leading digits, NaN when there are none
parseInt(q) ==
  LET k == DigitPrefix(q)
  IN  IF k = 0 THEN NaN ELSE Decimal(SubSeq(q, 1, k))

\* a * b in JavaScript: NaN when a is NaN
Times(a, b) == IF a = NaN THEN NaN ELSE a * b

\* mutant of everyDelay: the suffix s is tested before the suffix ms
everyDelay_SecondsFirst(ms, old) ==
  IF ms.isString
  THEN IF endsWith(ms.string, <<"s">>) THEN Times(parseInt(ms.string), 1000)
       ELSE IF endsWith(ms.string, <<"m", "s">>) THEN parseInt(ms.string)
       ELSE IF endsWith(ms.string, <<"m">>) THEN Times(Times(parseInt(ms.string), 1000), 60)
       ELSE old
  ELSE ms.number

\* mutant of everyDelay: a string without a unit clears the delay
everyDelay_NoUnitClears(ms, old) ==
  IF ms.isString
  THEN IF endsWith(ms.string, <<"m", "s">>) THEN parseInt(ms.string)
       ELSE IF endsWith(ms.string, <<"s">>) THEN Times(parseInt(ms.string), 1000)
       ELSE IF endsWith(ms.string, <<"m">>) THEN Times(Times(parseInt(ms.string), 1000), 60)
       ELSE Undef
  ELSE ms.number

\* the value of this._timeout after every(ms), old being its value before
everyDelay(ms, old) ==
  IF ms.isString
  THEN IF endsWith(ms.string, <<"m", "s">>) THEN parseInt(ms.string)
       ELSE IF endsWith(ms.string, <<"s">>) THEN Times(parseInt(ms.string), 1000)
       ELSE IF endsWith(ms.string, <<"m">>) THEN Times(Times(parseInt(ms.string), 1000), 60)
       ELSE old
  ELSE ms.number

Final == {"resolved", "rejected", "ended"}
Live(tk) == tk.pc \notin Final

\* the promise/closure created by one driver call
NewTask(kind, count, pred) ==
  [kind |-> kind, pc |-> "start", n |-> count, count |-> count, pred |-> pred,
   deadline |-> 0, calls |-> <<>>, done |-> 0, err |-> FALSE, evals |-> <<>>,
   late |-> FALSE,     \* history: the driver call was made after a call of stop()
   waits |-> 0]        \* history: the delay waits started after a call of stop()

Step(tk, rep) == [t |-> tk, r |-> rep]

\* sleep(ms): the timer is armed, the caller is suspended
sleep(tk, clk, ms) == [tk EXCEPT !.pc = "sleep", !.deadline = clk + ms]

\* mutant of action: the promise of an asynchronous action is not awaited
action_NotAwaited(tk, idx, o) ==
  [tk EXCEPT !.calls = Append(@, idx),
             !.done  = IF o = "async" THEN @ ELSE @ + 1,
             !.err   = (o = "throw"),
             !.pc    = IF o = "throw" THEN "rejected" ELSE "resume"]

\* mutant of action: an error raised by the action is caught and the run goes on
action_ErrorSwallowed(tk, idx, o) ==
  [tk EXCEPT !.calls = Append(@, idx),
             !.done  = IF o = "async" THEN @ ELSE @ + 1,
             !.err   = (o = "throw"),
             !.pc    = IF o = "async" THEN "action" ELSE "resume"]

\* this.action(idx): the call itself and, for a synchronous action, its completion.
\* calls logs the indices passed, done counts the invocations that have finished,
\* err records that the action raised.
action(tk, idx, o) ==
  [tk EXCEPT !.calls = Append(@, idx),
             !.done  = IF o = "async" THEN @ ELSE @ + 1,
             !.err   = (o = "throw"),
             !.pc    = CASE o = "sync"  -> "resume"
                         [] o = "async" -> "action"
                         [] o = "throw" -> "rejected"]

\* mutant of _doAction: the first call of a fresh counter is made without the delay
_doAction_FirstCallUndelayed(tk, rep, tmo, clk, o) ==
  LET r1 == rep + 1
  IN  IF Truthy(tmo) /\ rep > 0 THEN Step(sleep(tk, clk, tmo), r1)
                                ELSE Step(action(tk, r1, o), r1)

\* _doAction up to its first suspension
_doAction(tk, rep, tmo, clk, o) ==
  LET r1 == rep + 1
  IN  IF Truthy(tmo) THEN Step(sleep(tk, clk, tmo), r1)
                     ELSE Step(action(tk, r1, o), r1)

\* _doAction after its sleep
_doActionAwake(tk, rep, o) == action(tk, rep, o)

\* mutant of runInfinite: the delay is not applied before the action
runInfinite_NoDelayFirst(tk, rep, tmo, stopped, clk, o) ==
  LET r1 == rep + 1
  IN  IF ~stopped THEN Step(action(tk, r1, o), r1)
                  ELSE Step([tk EXCEPT !.pc = "ended"], r1)

\* mutant of runInfinite: the stop flag is not read when there is no delay
runInfinite_StopNotRead(tk, rep, tmo, stopped, clk, o) ==
  LET r1 == rep + 1
  IN  IF Truthy(tmo) THEN Step(sleep(tk, clk, tmo), r1)
      ELSE Step(action(tk, r1, o), r1)

\* the run closure of infinite() up to its first suspension
runInfinite(tk, rep, tmo, stopped, clk, o) ==
  LET r1 == rep + 1
  IN  IF Truthy(tmo) THEN Step(sleep(tk, clk, tmo), r1)
      ELSE IF ~stopped THEN Step(action(tk, r1, o), r1)
      ELSE Step([tk EXCEPT !.pc = "ended"], r1)

\* mutant of runInfiniteAwake: the stop flag is not read again after the sleep
runInfiniteAwake_NoStopCheck(tk, rep, stopped, o) == action(tk, rep, o)

\* the run closure of infinite() after its sleep
runInfiniteAwake(tk, rep, stopped, o) ==
  IF ~stopped THEN action(tk, rep, o) ELSE [tk EXCEPT !.pc = "ended"]

\* mutant of runRepeat: the count is tested before it is decremented
runRepeat_TestBeforeDecrement(tk, rep, tmo, clk, o) ==
  LET t1 == [tk EXCEPT !.count = tk.count - 1]
  IN  IF tk.count # 0 THEN _doAction(t1, rep, tmo, clk, o)
                      ELSE Step([t1 EXCEPT !.pc = "unwind"], rep)

\* mutant of runRepeat: the loop is bounded by the instance's call counter, not by count
runRepeat_BoundedByCounter(tk, rep, tmo, clk, o) ==
  LET t1 == [tk EXCEPT !.count = tk.count - 1]
  IN  IF rep < tk.n THEN _doAction(t1, rep, tmo, clk, o)
                    ELSE Step([t1 EXCEPT !.pc = "unwind"], rep)

\* mutant of runRepeat: the loop goes on only while the count is positive
runRepeat_WhilePositive(tk, rep, tmo, clk, o) ==
  LET c  == tk.count - 1
      t1 == [tk EXCEPT !.count = c]
  IN  IF c > 0 THEN _doAction(t1, rep, tmo, clk, o)
               ELSE Step([t1 EXCEPT !.pc = "unwind"], rep)

\* the run closure of repeat() after _doAction has returned
runRepeat(tk, rep, tmo, clk, o) ==
  LET c  == tk.count - 1
      t1 == [tk EXCEPT !.count = c]
  IN  IF c # 0 THEN _doAction(t1, rep, tmo, clk, o)
               ELSE Step([t1 EXCEPT !.pc = "unwind"], rep)

\* typeof finished === 'function'
IsFunction(pred) == pred \in {"fn", "rt"}

\* a >= b in JavaScript: false when a is undefined
GE(a, b) == a # Undef /\ a >= b

\* the value of finished(arg): "rt" is the predicate rt => rt >= MinRt, "fn" a zero-argument
\* function of the caller's state, whose result r the environment chooses
predicate(pred, arg, r) == IF pred = "rt" THEN GE(arg, MinRt) ELSE r

\* mutant of runUntil: the result of finished() is not negated
runUntil_Inverted(tk, rep, tmo, clk, o, r) ==
  IF IsFunction(tk.pred)
  THEN LET res == predicate(tk.pred, Undef, r)
           t1  == [tk EXCEPT !.evals = Append(@, res)]
       IN  IF res THEN _doAction(t1, rep, tmo, clk, o)
                  ELSE Step([t1 EXCEPT !.pc = "unwind"], rep)
  ELSE IF tk.pred = "true" THEN _doAction(tk, rep, tmo, clk, o)
                           ELSE Step([tk EXCEPT !.pc = "unwind"], rep)

\* mutant of runUntil: finished is called with the call index
runUntil_PassesIndex(tk, rep, tmo, clk, o, r) ==
  IF IsFunction(tk.pred)
  THEN LET res == predicate(tk.pred, rep, r)
           t1  == [tk EXCEPT !.evals = Append(@, res)]
       IN  IF ~res THEN _doAction(t1, rep, tmo, clk, o)
                   ELSE Step([t1 EXCEPT !.pc = "unwind"], rep)
  ELSE IF ~(tk.pred = "true") THEN _doAction(tk, rep, tmo, clk, o)
                              ELSE Step([tk EXCEPT !.pc = "unwind"], rep)

\* mutant of runUntil: a boolean argument is read again from the caller's variable
runUntil_ReadsVariableAgain(tk, rep, tmo, clk, o, r) ==
  IF IsFunction(tk.pred)
  THEN LET res == predicate(tk.pred, Undef, r)
           t1  == [tk EXCEPT !.evals = Append(@, res)]
       IN  IF ~res THEN _doAction(t1, rep, tmo, clk, o)
                   ELSE Step([t1 EXCEPT !.pc = "unwind"], rep)
  ELSE IF ~complete THEN _doAction(tk, rep, tmo, clk, o)
                    ELSE Step([tk EXCEPT !.pc = "unwind"], rep)

\* the run closure of until() after _doAction has returned: finished() is called with no
\* argument; r is what a zero-argument function returns
runUntil(tk, rep, tmo, clk, o, r) ==
  IF IsFunction(tk.pred)
  THEN LET res == predicate(tk.pred, Undef, r)
           t1  == [tk EXCEPT !.evals = Append(@, res)]
       IN  IF ~res THEN _doAction(t1, rep, tmo, clk, o)
                   ELSE Step([t1 EXCEPT !.pc = "unwind"], rep)
  ELSE IF ~(tk.pred = "true") THEN _doAction(tk, rep, tmo, clk, o)
                              ELSE Step([tk EXCEPT !.pc = "unwind"], rep)

\* the bounds of the model, as a guard on the task a step produces
\* (the one delay wait that a stopped infinite loop still starts is always let through)
Within(tk) ==
  /\ Len(tk.calls) <= MaxCalls
  /\ tk.deadline <= MaxNow \/ (tk.kind = "infinite" /\ tk.waits > 0)

\* history: a delay wait that starts while the stop flag is set is counted
Note(tk, stopped) ==
  IF stopped /\ tk.pc = "sleep" THEN [tk EXCEPT !.waits = @ + 1] ELSE tk

Init ==
  /\ status = "idle"
  /\ startDate = Undef
  /\ endDate = Undef
  /\ runTime = Undef
  /\ _repeated = 0
  /\ _timeout = Undef
  /\ _stopped = FALSE
  /\ now = 0
  /\ tasks = <<>>
  /\ everyArg = Num(Undef)
  /\ stopMark = 0
  /\ complete = FALSE

\* mutant of _complete: the call counter is not reset
_complete_CounterKept ==
  /\ _repeated' = _repeated
  /\ status' = "complete"
  /\ endDate' = now
  /\ runTime' = IF startDate = Undef THEN runTime ELSE now - startDate

\* _complete(): runTime is computed last and throws when startDate was never set
_complete ==
  /\ _repeated' = 0
  /\ status' = "complete"
  /\ endDate' = now
  /\ runTime' = IF startDate = Undef THEN runTime ELSE now - startDate

\* every() is called while no driver run is in progress ("must be called before
\* calling the until() or repeat() method")
every(ms) ==
  /\ \A j \in DOMAIN tasks : ~Live(tasks[j])
  /\ _timeout' = everyDelay(ms, _timeout)
  /\ everyArg' = ms
  /\ UNCHANGED <<status, startDate, endDate, runTime, _repeated, _stopped, now, tasks,
                 stopMark, complete>>

\* the common part of the three drivers: a driver call whose first synchronous run ends in s
Begin(s) ==
  /\ Len(tasks) < MaxTasks
  /\ LET nt == Note([s.t EXCEPT !.late = _stopped], _stopped)
     IN  /\ Within(nt)
         /\ tasks' = Append(tasks, nt)
  /\ status' = "running"
  /\ startDate' = now
  /\ _repeated' = s.r
  /\ UNCHANGED <<endDate, runTime, _timeout, _stopped, now, caller>>

repeat(count) ==
  \E o \in Outcomes :
    Begin(_doAction(NewTask("repeat", count, "true"), _repeated, _timeout, now, o))

\* the value of the argument expression of until(): the variable complete is read at the call
Argument(finished) ==
  IF finished = "complete" THEN (IF complete THEN "true" ELSE "false") ELSE finished

until(finished) ==
  \E o \in Outcomes :
    Begin(_doAction(NewTask("until", 0, Argument(finished)), _repeated, _timeout, now, o))

\* the caller assigns its variable: `complete = await server.checkMaintenance()`
Assign(v) ==
  /\ complete # v
  /\ complete' = v
  /\ UNCHANGED <<inst, now, tasks, everyArg, stopMark>>

\* mutant of infinite: the loop starts as if the stop flag had been cleared
infinite_StopFlagCleared ==
  \E o \in Outcomes :
    Begin(runInfinite(NewTask("infinite", 0, "true"), _repeated, _timeout, FALSE, now, o))

infinite ==
  \E o \in Outcomes :
    Begin(runInfinite(NewTask("infinite", 0, "true"), _repeated, _timeout, _stopped, now, o))

stop ==
  /\ _stopped' = TRUE
  /\ _complete
  /\ stopMark' = IF \E i \in DOMAIN tasks : tasks[i].kind = "infinite" /\ Live(tasks[i])
                 THEN Len(tasks) ELSE 0
  /\ UNCHANGED <<startDate, _timeout, now, tasks, everyArg, complete>>

\* the timer of a sleeping task fires: timers fire in the order of their deadlines,
\* and the clock has then reached the deadline
Wake(i) ==
  /\ tasks[i].pc = "sleep"
  /\ \A j \in DOMAIN tasks : tasks[j].pc = "sleep" => tasks[j].deadline >= tasks[i].deadline
  /\ \E o \in Outcomes :
       LET nt == IF tasks[i].kind = "infinite"
                 THEN runInfiniteAwake(tasks[i], _repeated, _stopped, o)
                 ELSE _doActionAwake(tasks[i], _repeated, o)
       IN  /\ Within(nt)
           /\ tasks' = [tasks EXCEPT ![i] = nt]
  /\ now' = tasks[i].deadline
  /\ UNCHANGED <<inst, caller>>

\* an asynchronous action settles
ActionDone(i) ==
  /\ tasks[i].pc = "action"
  /\ \E ok \in BOOLEAN :
       tasks' = [tasks EXCEPT ![i].done = @ + 1,
                              ![i].err = ~ok,
                              ![i].pc = IF ok THEN "resume" ELSE "rejected"]
  /\ UNCHANGED <<inst, now, caller>>

\* the continuation after `await this.action(...)`
Resume(i) ==
  /\ tasks[i].pc = "resume"
  /\ \E o \in Outcomes, r \in BOOLEAN :
       LET s == CASE tasks[i].kind = "repeat" -> runRepeat(tasks[i], _repeated, _timeout, now, o)
                  [] tasks[i].kind = "until"  -> runUntil(tasks[i], _repeated, _timeout, now, o, r)
                  [] tasks[i].kind = "infinite" ->
                       runInfinite(tasks[i], _repeated, _timeout, _stopped, now, o)
           nt == Note(s.t, _stopped)
       IN  /\ Within(nt)
           /\ tasks' = [tasks EXCEPT ![i] = nt]
           /\ _repeated' = s.r
  /\ UNCHANGED <<status, startDate, endDate, runTime, _timeout, _stopped, now, caller>>

\* `return this._complete()` of repeat() and until(): the awaitable resolves
Complete(i) ==
  /\ tasks[i].pc = "unwind"
  /\ _complete
  /\ tasks' = [tasks EXCEPT ![i].pc = "resolved"]
  /\ UNCHANGED <<startDate, _timeout, _stopped, now, caller>>

Next ==
  \/ \E ms \in Delays : every(Num(ms))
  \/ \E count \in Counts : repeat(count)
  \/ \E finished \in Preds : until(finished)
  \/ infinite
  \/ stop
  \/ \E i \in DOMAIN tasks : Wake(i)
  \/ \E i \in DOMAIN tasks : ActionDone(i)
  \/ \E i \in DOMAIN tasks : Resume(i)
  \/ \E i \in DOMAIN tasks : Complete(i)

Spec == Init /\ [][Next]_vars

\* the steps of the run of driver call i
Run(i) == i \in DOMAIN tasks /\ (Wake(i) \/ ActionDone(i) \/ Resume(i) \/ Complete(i))

\* infinite() and stop(), every delay wait and every in-flight action eventually finishing
\* and every continuation eventually running
NextLoop ==
  \/ \E ms \in Delays : every(Num(ms))
  \/ infinite
  \/ stop
  \/ \E i \in DOMAIN tasks : Wake(i)
  \/ \E i \in DOMAIN tasks : ActionDone(i)
  \/ \E i \in DOMAIN tasks : Resume(i)

SpecLoop == Init /\ [][NextLoop]_vars /\ \A i \in 1 .. MaxTasks : WF_vars(Run(i))

\* until(complete) with the caller assigning the variable complete at any moment
NextFlag ==
  \/ \E ms \in Delays : every(Num(ms))
  \/ \E finished \in {"complete"} : until(finished)
  \/ \E v \in BOOLEAN : Assign(v)
  \/ \E i \in DOMAIN tasks : Wake(i)
  \/ \E i \in DOMAIN tasks : ActionDone(i)
  \/ \E i \in DOMAIN tasks : Resume(i)
  \/ \E i \in DOMAIN tasks : Complete(i)

SpecFlag == Init /\ [][NextFlag]_vars

\* every() alone, called with numbers and with strings on an instance that is not running
NextEvery ==
  \/ \E ms \in Delays : every(Num(ms))
  \/ \E ms \in Strings : every(Str(ms))

SpecEvery == Init /\ [][NextEvery]_vars

\* ---------------------------------------------------------------- helpers of the claims
OneTo(k) == [j \in 1 .. k |-> j]
Last(q) == q[Len(q)]
Settled(tk) == tk.pc \in {"unwind", "resolved"}    \* the run has ended naturally
Solo == Len(tasks) = 1 /\ ~_stopped               \* one driver call, stop() never called
Started == Len(tasks') = Len(tasks) + 1           \* this step is a driver call
New == tasks'[Len(tasks')]                        \* the run that driver call has begun

TypeOK ==
  /\ status \in {"idle", "running", "complete"}
  /\ _repeated \in Nat
  /\ now \in 0 .. MaxNow + MaxTasks * MaxDelay
  /\ Len(tasks) <= MaxTasks

\* ---------------------------------------------------------------- C1
\* C1: on a fresh instance (one driver call, stop() not called) repeat(N), N > 0, passes
\* the indices 1, 2, ..., N in that order, one invocation at a time, has made exactly N
\* invocations when it ends, and status is complete exactly once it has resolved.
C1_RepeatCallsOneToN ==
  \A i \in DOMAIN tasks :
    LET tk == tasks[i]
    IN  (Solo /\ tk.kind = "repeat" /\ tk.n > 0) =>
          /\ Len(tk.calls) <= tk.n
          /\ tk.calls = OneTo(Len(tk.calls))
          /\ tk.done \in {Len(tk.calls) - 1, Len(tk.calls)}
          /\ Settled(tk) => (tk.calls = OneTo(tk.n) /\ tk.done = tk.n)
          /\ (status = "complete") <=> (tk.pc = "resolved")

C1_Witness ==
  /\ Solo
  /\ tasks[1].kind = "repeat"
  /\ tasks[1].n >= 2
  /\ tasks[1].pc = "resolved"
  /\ tasks[1].calls = OneTo(tasks[1].n)
  /\ status = "complete"

\* ---------------------------------------------------------------- C2
\* C2: in until(f) with a function f, f is evaluated only after an invocation has
\* finished and once per invocation, every evaluation but the last returned false, a
\* false evaluation is followed by the next invocation (after its delay), and after a
\* true evaluation the run ends with no further invocation.
C2_UntilChecksAfterEachCall ==
  \A i \in DOMAIN tasks :
    LET tk == tasks[i]
        e  == Len(tk.evals)
        c  == Len(tk.calls)
    IN  (tk.kind = "until" /\ tk.pred = "fn") =>
          /\ e <= tk.done
          /\ c <= e + 1
          /\ \A k \in 1 .. e - 1 : tk.evals[k] = FALSE
          /\ (e > 0 /\ Last(tk.evals)) => (c = e /\ Settled(tk))
          /\ (e > 0 /\ ~Last(tk.evals) /\ c = e) => tk.pc = "sleep"
          /\ Settled(tk) => (e > 0 /\ Last(tk.evals))
          /\ tk.pc = "resume" => (e = c - 1 /\ tk.done = c)

C2_Witness ==
  \E i \in DOMAIN tasks :
    /\ tasks[i].kind = "until"
    /\ tasks[i].pred = "fn"
    /\ tasks[i].pc = "resolved"
    /\ tasks[i].evals = <<FALSE, TRUE>>
    /\ Len(tasks[i].calls) = 2

\* ---------------------------------------------------------------- C3
\* C3 as stated: when infinite() returns, no invocation of the action has finished.
C3_Original ==
  [][(Started /\ New.kind = "infinite") => New.done = 0]_vars

\* C3 as amended: when infinite() returns, no invocation has finished if a positive delay
\* is set (the loop is in its first wait, nothing invoked) or the action is asynchronous
\* (the first invocation is in flight); with no delay and a synchronous action the first
\* invocation has already returned or thrown when infinite() returns.
C3_InfiniteReturnsEarly ==
  [][(Started /\ New.kind = "infinite") =>
        /\ Truthy(_timeout) => (New.pc = "sleep" /\ New.calls = <<>>)
        /\ New.pc = "action" => (New.done = 0 /\ Len(New.calls) = 1)
        /\ New.done = 1 => (~Truthy(_timeout) /\ New.pc \in {"resume", "rejected"})
        /\ New.done <= 1
        /\ New.pc = "ended" => (_stopped /\ New.calls = <<>>)]_vars

C3_Witness ==
  /\ Len(tasks) = 1
  /\ tasks[1].kind = "infinite"
  /\ tasks[1].pc = "action"
  /\ tasks[1].calls = <<1>>
  /\ tasks[1].done = 0
  /\ status = "running"

\* ---------------------------------------------------------------- C4
\* C4: from the step in which stop() sets the flag on, no infinite() loop starts an
\* invocation; a loop that is in a delay wait is left waiting by stop() and ends, without
\* the action of that tick, when that delay has elapsed.
C4_NoInvocationAfterStop ==
  [][/\ \A i \in DOMAIN tasks :
          (tasks[i].kind = "infinite" /\ _stopped') =>
            /\ tasks'[i].calls = tasks[i].calls
            /\ tasks[i].pc = "sleep" =>
                 \/ tasks'[i] = tasks[i]
                 \/ tasks'[i].pc = "ended" /\ now' = tasks[i].deadline
     /\ (Started /\ New.kind = "infinite" /\ _stopped) => New.calls = <<>>]_vars

C4_Witness ==
  /\ Len(tasks) = 1
  /\ tasks[1].kind = "infinite"
  /\ tasks[1].pc = "ended"
  /\ Len(tasks[1].calls) >= 1
  /\ _stopped
  /\ _repeated = 0
  /\ now = tasks[1].deadline
  /\ now > 0

\* ---------------------------------------------------------------- C5
InProgress(tk) == tk.pc \in {"sleep", "action"}    \* in a delay wait or in an invocation

\* C5 as stated: on one instance at most one delay wait or invocation is in progress at
\* any time, whatever driver calls were made.
C5_Original ==
  Cardinality({i \in DOMAIN tasks : InProgress(tasks[i])}) <= 1

\* C5 as amended: within one driver run at most one invocation is in progress, it is in
\* progress exactly while the run awaits it, and no delay wait of the run overlaps an
\* invocation of the run; runs that are in progress together on one instance (a driver
\* started while another run or an infinite() loop has not ended) are not serialised.
C5_SequentialWithinRun ==
  \A i \in DOMAIN tasks :
    LET tk == tasks[i]
        c  == Len(tk.calls)
    IN  /\ tk.done \in {c - 1, c}
        /\ (tk.pc = "action") <=> (tk.done = c - 1)
        /\ tk.pc = "sleep" => tk.done = c

C5_Witness ==
  \E i, j \in DOMAIN tasks :
    /\ i # j
    /\ Len(tasks[i].calls) = 2
    /\ tasks[i].done = 1
    /\ tasks[i].pc = "action"
    /\ InProgress(tasks[j])
    /\ Truthy(_timeout)

\* ---------------------------------------------------------------- C6
\* C6: in the step in which the promise of repeat() or until() resolves, status becomes
\* complete, the call counter 0, endDate the current time, and runTime the difference of
\* endDate and the startDate stored on the instance.
C6_CompletionBookkeeping ==
  [][\A i \in DOMAIN tasks :
       (tasks[i].pc # "resolved" /\ tasks'[i].pc = "resolved") =>
         /\ tasks[i].kind \in {"repeat", "until"}
         /\ status' = "complete"
         /\ _repeated' = 0
         /\ endDate' = now'
         /\ endDate' # Undef /\ startDate' # Undef
         /\ runTime' = endDate' - startDate']_vars

C6_Witness ==
  \E i \in DOMAIN tasks :
    /\ tasks[i].pc = "resolved"
    /\ status = "complete"
    /\ _repeated = 0
    /\ endDate = now
    /\ runTime = endDate - startDate
    /\ runTime > 0

\* ---------------------------------------------------------------- C7
\* C7: once the action has raised or rejected in a run, the run's promise is rejected and
\* the run makes no further step or invocation; the step in which it fails sets neither
\* endDate nor runTime, does not set status to complete and does not reset the call
\* counter, so a failed run that is the only driver call leaves endDate and runTime unset,
\* status running and the counter at the index of the failed invocation.
C7_FailureAborts ==
  /\ [](\A i \in DOMAIN tasks :
          /\ tasks[i].err => tasks[i].pc = "rejected"
          /\ (Solo /\ tasks[i].err) =>
                /\ endDate = Undef /\ runTime = Undef
                /\ status = "running"
                /\ _repeated = Last(tasks[i].calls))
  /\ [][/\ \A i \in DOMAIN tasks :
             /\ tasks[i].err => tasks'[i] = tasks[i]
             /\ (~tasks[i].err /\ tasks'[i].err) =>
                   /\ UNCHANGED <<status, endDate, runTime>>
                   /\ _repeated' \in {_repeated, _repeated + 1}
         /\ (Started /\ New.err) =>
               /\ UNCHANGED <<endDate, runTime>>
               /\ status' = "running"
               /\ _repeated' = _repeated + 1]_vars

C7_Witness ==
  /\ Solo
  /\ tasks[1].kind = "repeat"
  /\ tasks[1].n = 2
  /\ tasks[1].err
  /\ tasks[1].pc = "rejected"
  /\ tasks[1].calls = <<1>>
  /\ status = "running"
  /\ endDate = Undef

\* ---------------------------------------------------------------- C8
\* C8 as stated: a driver call made on a reused instance while no run is in progress
\* starts from reset counters: the call counter is 1 once the call has begun its first
\* tick, and an invocation made at once receives index 1.
C8_Original ==
  [][(/\ Started
      /\ Len(tasks) >= 1
      /\ \A j \in DOMAIN tasks : ~Live(tasks[j])) =>
        /\ _repeated' = 1
        /\ New.calls # <<>> => New.calls[1] = 1]_vars

\* ---------------------------------------------------------------- C9
\* C9 as stated: whenever stop() is called during the only driver call repeat(N), the
\* run still makes N invocations with the indices 1..N.
C9_Original ==
  \A i \in DOMAIN tasks :
    (Len(tasks) = 1 /\ tasks[i].kind = "repeat" /\ tasks[i].n > 0 /\ Settled(tasks[i])) =>
      tasks[i].calls = OneTo(tasks[i].n)

\* C9 as amended: stop() does not cancel repeat or until: a repeat(N) run never ends
\* early, never exceeds N invocations and has made exactly N when it ends, an until run
\* ends only after its predicate returned true (never for until(false)); but stop()
\* resets the call counter, so in a run that is the only driver call each index is at
\* most one more than the previous one and may restart from 0 or 1 after a stop().
C9_StopDoesNotCancel ==
  \A i \in DOMAIN tasks :
    LET tk == tasks[i]
        c  == Len(tk.calls)
    IN  /\ tk.kind \in {"repeat", "until"} =>
             /\ tk.pc # "ended"
             /\ tk.pc = "rejected" => tk.err
        /\ (tk.kind = "repeat" /\ tk.n > 0) =>
             /\ c <= tk.n
             /\ Settled(tk) => (c = tk.n /\ tk.done = tk.n)
             /\ Len(tasks) = 1 =>
                  /\ c >= 1 => tk.calls[1] \in {0, 1}
                  /\ \A k \in 2 .. c : tk.calls[k] \in 0 .. tk.calls[k - 1] + 1
        /\ (tk.kind = "until" /\ tk.pred = "fn" /\ Settled(tk)) =>
             (tk.evals # <<>> /\ Last(tk.evals))
        /\ (tk.kind = "until" /\ tk.pred = "false") => ~Settled(tk)

C9_Witness ==
  /\ Len(tasks) = 1
  /\ _stopped
  /\ tasks[1].kind = "repeat"
  /\ tasks[1].n = 2
  /\ tasks[1].pc = "resolved"
  /\ Len(tasks[1].calls) = 2
  /\ tasks[1].calls # <<1, 2>>

\* ---------------------------------------------------------------- C10
\* C10 as stated: repeat(count) with count <= 0 makes no invocation of the action.
C10_Original ==
  \A i \in DOMAIN tasks :
    (tasks[i].kind = "repeat" /\ tasks[i].n <= 0) => tasks[i].calls = <<>>

\* ---------------------------------------------------------------- C11
Invoked(i) == Len(tasks'[i].calls) > Len(tasks[i].calls)    \* run i calls the action in this step

\* C11: with a positive delay stored on the instance, a run calls the action only in the
\* step that ends one of its delay waits, a wait lasts the stored delay (the clock has
\* advanced by it when the wait ends), a driver call begins with a wait and no invocation,
\* and a wait is followed by the invocation (or, in a stopped infinite loop, by the end of
\* the loop), never by another wait; with the delay unset or 0 no run ever waits.
C11_DelayBeforeEachCall ==
  [][/\ \A i \in DOMAIN tasks :
          /\ (Invoked(i) /\ Truthy(_timeout)) =>
                /\ tasks[i].pc = "sleep"
                /\ now' = tasks[i].deadline
                /\ Len(tasks'[i].calls) = Len(tasks[i].calls) + 1
          /\ (tasks[i].pc # "sleep" /\ tasks'[i].pc = "sleep") =>
                /\ Truthy(_timeout)
                /\ tasks'[i].deadline = now + _timeout
          /\ (tasks[i].pc = "sleep" /\ tasks'[i] # tasks[i]) =>
                /\ now' = tasks[i].deadline
                /\ Invoked(i) \/ (tasks[i].kind = "infinite" /\ _stopped /\ tasks'[i].pc = "ended")
          /\ ~Truthy(_timeout) => tasks'[i].pc # "sleep"
     /\ Started =>
          /\ Truthy(_timeout) =>
                (New.pc = "sleep" /\ New.calls = <<>> /\ New.deadline = now + _timeout)
          /\ ~Truthy(_timeout) => New.pc # "sleep"]_vars

C11_Witness ==
  /\ Solo
  /\ Truthy(_timeout)
  /\ tasks[1].kind = "repeat"
  /\ tasks[1].calls = <<1, 2>>
  /\ startDate = 0
  /\ now = 2 * _timeout

\* ---------------------------------------------------------------- C12
\* C12 as stated: until(rt => rt >= MinRt) invokes the action MinRt times, no more.
C12_Original ==
  \A i \in DOMAIN tasks :
    (tasks[i].kind = "until" /\ tasks[i].pred = "rt") => Len(tasks[i].calls) <= MinRt

\* C12 as amended: until(rt => rt >= MinRt) calls the predicate with no argument, so every
\* evaluation is false: the run never ends, and after each invocation that has finished
\* it goes on to the next one.
C12_IndexPredicateNeverTrue ==
  \A i \in DOMAIN tasks :
    LET tk == tasks[i]
    IN  (tk.kind = "until" /\ tk.pred = "rt") =>
          /\ ~Settled(tk)
          /\ \A k \in 1 .. Len(tk.evals) : tk.evals[k] = FALSE
          /\ Len(tk.evals) <= tk.done
          /\ Len(tk.calls) <= Len(tk.evals) + 1
          /\ tk.pc = "rejected" => tk.err

C12_Witness ==
  \E i \in DOMAIN tasks :
    /\ tasks[i].kind = "until"
    /\ tasks[i].pred = "rt"
    /\ Len(tasks[i].calls) > MinRt
    /\ Len(tasks[i].evals) >= MinRt
    /\ _repeated > MinRt
    /\ Live(tasks[i])

\* ---------------------------------------------------------------- C13
\* C13 as stated: every change of status is idle -> running or complete -> running made by
\* the start of a driver call, or running -> complete; in particular status never goes
\* from idle directly to complete.
C13_Original ==
  [][status' # status =>
       \/ status \in {"idle", "complete"} /\ status' = "running" /\ Started
       \/ status = "running" /\ status' = "complete" /\ ~Started]_vars

\* stop() has been called on an instance on which no driver call was ever made
C13_Witness ==
  /\ status = "complete"
  /\ startDate = Undef
  /\ tasks = <<>>

\* ---------------------------------------------------------------- C14
\* the units of every(string) and their factors
Units ==
  { [suffix |-> <<"m", "s">>, factor |-> 1],
    [suffix |-> <<"s">>,      factor |-> 1000],
    [suffix |-> <<"m">>,      factor |-> 60000] }

\* q without its last k characters
Magnitude(q, k) == SubSeq(q, 1, Len(q) - k)

\* q is the decimal numeral of a non-negative integer
IsNumeral(q) == q # <<>> /\ \A k \in DOMAIN q : IsDigit(q[k])

\* q is a numeral followed by one of the units
WellFormed(q) ==
  \E u \in Units : endsWith(q, u.suffix) /\ IsNumeral(Magnitude(q, Len(u.suffix)))

\* C14: after every('<n>ms'), every('<n>s') or every('<n>m'), n a non-negative integer
\* numeral, the stored delay is the one every(n), every(n*1000) or every(n*60000) stores.
C14_StringSameAsNumber ==
  everyArg.isString =>
    \A u \in Units :
      LET mag == Magnitude(everyArg.string, Len(u.suffix))
      IN  (endsWith(everyArg.string, u.suffix) /\ IsNumeral(mag)) =>
            _timeout = everyDelay(Num(Decimal(mag) * u.factor), Undef)

C14_Witness ==
  /\ everyArg = Str(<<"2", "0", "s">>)
  /\ _timeout = 20000

\* ---------------------------------------------------------------- C15
\* C15 as stated: every() called with a string that is not a numeral followed by ms, s or
\* m leaves the stored delay unchanged.
C15_Original ==
  [][(everyArg'.isString /\ ~WellFormed(everyArg'.string)) => _timeout' = _timeout]_vars

\* C15, the part that holds: every() called with a string that does not end in ms, s or m
\* leaves the stored delay unchanged.
C15_NoUnitKeepsDelay ==
  [][(/\ everyArg'.isString
      /\ \A u \in Units : ~endsWith(everyArg'.string, u.suffix)) => _timeout' = _timeout]_vars

\* a string with a unit and no leading digit has been passed and NaN is stored
C15_NaNStored ==
  /\ everyArg = Str(<<"x", "s">>)
  /\ _timeout = NaN

\* ---------------------------------------------------------------- C16
\* stop() was called with an infinite loop running and no driver call was made since
AfterStop == stopMark > 0 /\ Len(tasks) = stopMark

\* C16 as stated: from stop() on an instance whose infinite loop is running until the next
\* driver call, status is complete and the call counter is 0.
C16_Original == AfterStop => (status = "complete" /\ _repeated = 0)

\* C16, the part that holds: from stop() on an instance whose infinite loop is running
\* until the next driver call, status is complete.
C16_StatusStaysComplete == AfterStop => status = "complete"

\* stop() arrived during an in-flight action; the loop has fully unwound and the counter is 1
C16_CounterLeaks ==
  /\ AfterStop
  /\ Len(tasks) = 1
  /\ tasks[1].kind = "infinite"
  /\ tasks[1].pc = "ended"
  /\ status = "complete"
  /\ _repeated = 1

\* ---------------------------------------------------------------- C17
\* C17: once stop() has been called, every infinite loop still running eventually ends,
\* and no infinite loop starts more than one delay wait after a call of stop().
C17_LoopEndsAfterStop ==
  /\ [](\A i \in DOMAIN tasks : tasks[i].kind = "infinite" => tasks[i].waits <= 1)
  /\ \A i \in 1 .. MaxTasks :
       (i \in DOMAIN tasks /\ _stopped /\ Live(tasks[i]))
         ~> (i \in DOMAIN tasks /\ tasks[i].pc \in Final)

\* a loop stopped during an in-flight action has ended after one further delay wait
C17_Witness ==
  /\ Len(tasks) = 1
  /\ stopMark = 1
  /\ tasks[1].kind = "infinite"
  /\ ~tasks[1].late
  /\ tasks[1].waits = 1
  /\ tasks[1].pc = "ended"

C19_NonPositiveCountNeverCompletes ==
  \A i \in DOMAIN tasks :
    LET tk == tasks[i]
    IN  (tk.kind = "repeat" /\ tk.n <= 0) =>
          /\ ~Settled(tk)
          /\ tk.count <= tk.n
          /\ tk.count < tk.n => tk.count < 0
          /\ Solo => (tk.calls = OneTo(Len(tk.calls)) /\ status = "running")

\* repeat(0) has made MaxCalls invocations and goes on
C19_Witness ==
  /\ Solo
  /\ tasks[1].kind = "repeat"
  /\ tasks[1].n = 0
  /\ tasks[1].calls = OneTo(MaxCalls)
  /\ tasks[1].pc = "resume"
  /\ tasks[1].count < 0

\* ---------------------------------------------------------------- C20
\* an infinite() call made after a call of stop()
LateLoop(tk) == tk.kind = "infinite" /\ tk.late
\* this step is a call of stop()
StopCalled == tasks' = tasks /\ _stopped' /\ status' = "complete"
\* this step is the completion of a repeat or until run
RunCompleted == \E i \in DOMAIN tasks : tasks[i].pc = "unwind" /\ tasks'[i].pc = "resolved"

\* C20 as stated, its last part: once infinite() was called after stop(), status leaves
\* running only by another call of stop().
C20_Original ==
  [][((\E i \in DOMAIN tasks : LateLoop(tasks[i])) /\ status = "running" /\ status' # "running")
       => StopCalled]_vars

\* C20 as amended: the stop flag is never cleared; an infinite() call made after stop()
\* makes no invocation; status is running once that call has been made and then leaves
\* running only by another call of stop() or by the completion of a repeat or until run.
C20_StopFlagNeverCleared ==
  /\ [][_stopped => _stopped']_vars
  /\ [](\A i \in DOMAIN tasks : LateLoop(tasks[i]) => tasks[i].calls = <<>>)
  /\ [][(Started /\ LateLoop(New)) => status' = "running"]_vars
  /\ [][((\E i \in DOMAIN tasks : LateLoop(tasks[i])) /\ status = "running"
           /\ status' # "running") => (StopCalled \/ RunCompleted)]_vars

\* infinite() called after stop() has ended without an invocation and status reads running
C20_Witness ==
  /\ _stopped
  /\ Len(tasks) = 2
  /\ LateLoop(tasks[2])
  /\ tasks[2].pc = "ended"
  /\ tasks[2].calls = <<>>
  /\ tasks[2].waits = 1
  /\ status = "running"

====
